---------------------------- MODULE Spec2Model ----------------------------
(***************************************************************************)
(* calendar-fast: aggregation of a tree of .adoc documents into one        *)
(* document ordered by revision date.                                      *)
(*                                                                         *)
(* The repository holds two programs:                                      *)
(*   variant = "simple"  src/main.rs      (no date range, body re-read     *)
(*                                         from the file at render time)   *)
(*   variant = "range"   src/src/main.rs  (--start-date/--end-date, body   *)
(*                                         kept in Doc.content)            *)
(*                                                                         *)
(* A Rust String is modelled as the sequence of its bytes, every ASCII     *)
(* byte written as a one-character TLA+ string and the three bytes of the  *)
(* byte order mark as "EF", "BB", "BF".  Paths follow the Unix rules of    *)
(* std::path (the only separator is "/").  Every file operation succeeds   *)
(* and every line is valid UTF-8; the header and the footer are the        *)
(* defaults of main.                                                       *)
(***************************************************************************)
EXTENDS Integers, Sequences, FiniteSets, TLC

VARIABLES
    variant,            \* which of the two programs runs
    args,               \* command line: [start, end], each an optional token
    fs,                 \* the regular files under <src_path>, in read_dir order
    pc,                 \* position of main: "args", "traverse", "scan", "generate", "done"
    exit_code,          \* None while running, Some(0) or Some(1) once main returned
    stderr,             \* None, or the error main printed
    start_date,         \* main: start_date
    end_date,           \* main: end_date
    idx,                \* traverse: number of files already visited
    ln,                 \* get_doc: number of lines already read of file idx + 1
    cmt_block,          \* get_doc: cmt_block
    cmt_section,        \* get_doc: cmt_section
    cmt_section_block,  \* get_doc: cmt_section_block
    doc,                \* get_doc: doc
    docs,               \* main: docs
    gi,                 \* generate: number of elements of docs the iterator consumed
    out                 \* the writes made to the output file, in order

vars == <<variant, args, fs, pc, exit_code, stderr, start_date, end_date, idx, ln,
          cmt_block, cmt_section, cmt_section_block, doc, docs, gi, out>>

(***************************************************************************)
(* Option<T> and byte strings                                              *)
(***************************************************************************)
None == [some |-> FALSE]

Some(v) == [some |-> TRUE, val |-> v]

Min(a, b) == IF a <= b THEN a ELSE b

Whitespace == {" ", "\t", "\r"}

Digits == <<"0", "1", "2", "3", "4", "5", "6", "7", "8", "9">>

IsDigit(c) == \E i \in 1..10 : Digits[i] = c

DigitValue(c) == (CHOOSE i \in 1..10 : Digits[i] = c) - 1

\* str::starts_with
StartsWith(s, p) == Len(s) >= Len(p) /\ SubSeq(s, 1, Len(p)) = p

\* str::strip_prefix
StripPrefix(s, p) ==
    IF StartsWith(s, p) THEN Some(SubSeq(s, Len(p) + 1, Len(s))) ELSE None

RECURSIVE TrimStart(_)
TrimStart(s) ==
    IF s # <<>> /\ Head(s) \in Whitespace THEN TrimStart(Tail(s)) ELSE s

RECURSIVE TrimEnd(_)
TrimEnd(s) ==
    IF s # <<>> /\ s[Len(s)] \in Whitespace THEN TrimEnd(SubSeq(s, 1, Len(s) - 1)) ELSE s

\* mutant: a byte order mark in front of the line is trimmed away as well
Trim_with_bom(s) ==
    TrimEnd(TrimStart(IF Len(s) >= 3 /\ SubSeq(s, 1, 3) = <<"EF", "BB", "BF">>
                      THEN SubSeq(s, 4, Len(s)) ELSE s))

\* str::trim
Trim(s) == TrimEnd(TrimStart(s))

\* str::replace(s, "\\", "/")
RECURSIVE ReplaceBackslash(_)
ReplaceBackslash(s) ==
    IF s = <<>> THEN <<>>
    ELSE <<IF Head(s) = "\\" THEN "/" ELSE Head(s)>> \o ReplaceBackslash(Tail(s))

(***************************************************************************)
(* The literals of the programs                                            *)
(***************************************************************************)
BOM == <<"EF", "BB", "BF">>

SLASHES == <<"/", "/", "/", "/">>

COMMENT == <<"[", "c", "o", "m", "m", "e", "n", "t", "]">>

DASHES == <<"-", "-">>

INCLUDE == <<"i", "n", "c", "l", "u", "d", "e", ":", ":">>

REVDATE == <<":", "r", "e", "v", "d", "a", "t", "e", ":", " ">>

IMAGESDIR == <<":", "i", "m", "a", "g", "e", "s", "d", "i", "r", ":", " ">>

HTTP == <<"h", "t", "t", "p", ":", "/", "/">>

HTTPS == <<"h", "t", "t", "p", "s", ":", "/", "/">>

ADOC == <<"a", "d", "o", "c">>

HEADER == <<"=", " ", "C", "a", "l", "e", "n", "d", "a", "r", "\n", "\n">>

FOOTER == <<>>

LEVELOFFSET_OPEN ==
    <<"\n", "\n", ":", "l", "e", "v", "e", "l", "o", "f", "f", "s", "e", "t", ":",
      " ", "+", "1", "\n", "\n">>

LEVELOFFSET_CLOSE ==
    <<"\n", "\n", ":", "l", "e", "v", "e", "l", "o", "f", "f", "s", "e", "t", ":",
      " ", "-", "1", "\n", "\n">>

SEPARATOR == <<"\n", "\n">>

U16_MAX == 65535

U8_MAX == 255

(***************************************************************************)
(* Date codec                                                              *)
(***************************************************************************)
Date(y, m, d) == [year |-> y, month |-> m, day |-> d]

RECURSIVE DecimalValue(_, _)
DecimalValue(s, acc) ==
    IF s = <<>> THEN acc ELSE DecimalValue(Tail(s), acc * 10 + DigitValue(Head(s)))

\* <u16 as FromStr>::from_str and <u8 as FromStr>::from_str, as called by
\* str::parse: an optional leading "+", then one or more decimal digits, the
\* value at most max.  A leading "-" is an invalid digit for an unsigned type.
ParseUnsigned(s, max) ==
    LET digits == IF s # <<>> /\ Head(s) = "+" THEN Tail(s) ELSE s
    IN  IF digits = <<>> \/ \E i \in 1..Len(digits) : ~IsDigit(digits[i])
        THEN [ok |-> FALSE]
        ELSE IF DecimalValue(digits, 0) > max
             THEN [ok |-> FALSE]
             ELSE [ok |-> TRUE, val |-> DecimalValue(digits, 0)]

\* .parse().unwrap_or_else(|_| { ok = false; 0 })
ParseOrZero(s, max) ==
    IF ParseUnsigned(s, max).ok THEN ParseUnsigned(s, max).val ELSE 0

\* mutant: no month is given a 31st day
FieldsInRange_day30(year, month, day) ==
    year > 0 /\ month >= 1 /\ month <= 12 /\ day >= 1 /\ day <= 30

\* year > 0 && month >= 1 && month <= 12 && day >= 1 && day <= 31
FieldsInRange(year, month, day) ==
    year > 0 /\ month >= 1 /\ month <= 12 /\ day >= 1 /\ day <= 31

\* range variant: try_parse_date(date)
try_parse_date(date) ==
    LET len == 4 + 1 + 2 + 1 + 2
        ok1 == Len(date) = len
        ok2 == ok1 /\ date[5] = "-" /\ date[8] = "-"
        year == ParseOrZero(SubSeq(date, 1, 4), U16_MAX)
        month == ParseOrZero(SubSeq(date, 6, 7), U8_MAX)
        day == ParseOrZero(SubSeq(date, 9, 10), U8_MAX)
        ok3 == ok2 /\ FieldsInRange(year, month, day)
    IN  IF ~ok3 THEN [ok |-> FALSE, token |-> date]
        ELSE [ok |-> TRUE, date |-> Date(year, month, day)]

\* range variant: try_parse_date_with_prefix(line, prefix)
\* Ok(Some(d)) = [ok |-> TRUE, opt |-> Some(d)], Ok(None) = [ok |-> TRUE, opt |-> None]
try_parse_date_with_prefix(line, prefix) ==
    IF StripPrefix(line, prefix).some
    THEN LET r == try_parse_date(StripPrefix(line, prefix).val)
         IN  IF r.ok THEN [ok |-> TRUE, opt |-> Some(r.date)]
             ELSE [ok |-> FALSE, token |-> r.token]
    ELSE [ok |-> TRUE, opt |-> None]

\* simple variant: try_parse_date(line, prefix)
simple_try_parse_date(line, prefix) ==
    IF StripPrefix(line, prefix).some
    THEN LET date == StripPrefix(line, prefix).val
             len == 4 + 1 + 2 + 1 + 2
             ok1 == Len(date) = len
             ok2 == ok1 /\ date[5] = "-" /\ date[8] = "-"
             year == ParseOrZero(SubSeq(date, 1, 4), U16_MAX)
             month == ParseOrZero(SubSeq(date, 6, 7), U8_MAX)
             day == ParseOrZero(SubSeq(date, 9, 10), U8_MAX)
             ok3 == ok2 /\ FieldsInRange(year, month, day)
         IN  IF ~ok3 THEN [ok |-> FALSE, token |-> date]
             ELSE [ok |-> TRUE, opt |-> Some(Date(year, month, day))]
    ELSE [ok |-> TRUE, opt |-> None]

\* mutant: the day is compared with > instead of >=
Date_ge_strict_day(self, other) ==
    IF self.year > other.year THEN TRUE
    ELSE IF self.year = other.year /\ self.month > other.month THEN TRUE
    ELSE IF self.year = other.year /\ self.month = other.month /\ self.day > other.day
         THEN TRUE
    ELSE FALSE

\* Date::ge
Date_ge(self, other) ==
    IF self.year > other.year THEN TRUE
    ELSE IF self.year = other.year /\ self.month > other.month THEN TRUE
    ELSE IF self.year = other.year /\ self.month = other.month /\ self.day >= other.day
         THEN TRUE
    ELSE FALSE

\* Date::le
Date_le(self, other) ==
    IF self.year < other.year THEN TRUE
    ELSE IF self.year = other.year /\ self.month < other.month THEN TRUE
    ELSE IF self.year = other.year /\ self.month = other.month /\ self.day <= other.day
         THEN TRUE
    ELSE FALSE

(***************************************************************************)
(* std::path, Unix rules                                                   *)
(***************************************************************************)
\* index of the last occurrence of byte c in s, 0 when there is none
LastIndexOf(s, c) ==
    IF \E i \in 1..Len(s) : s[i] = c
    THEN CHOOSE i \in 1..Len(s) : s[i] = c /\ \A j \in (i + 1)..Len(s) : s[j] # c
    ELSE 0

\* Path::parent(..).unwrap() of a path with a file name: all before the last "/"
Parent(path) == SubSeq(path, 1, LastIndexOf(path, "/") - 1)

\* Path::file_name
FileName(path) == SubSeq(path, LastIndexOf(path, "/") + 1, Len(path))

\* Path::extension: what follows the last "." of the file name, unless the
\* file name has none or begins with its only "."
Extension(path) ==
    LET name == FileName(path)
        dot == LastIndexOf(name, ".")
    IN  IF dot <= 1 THEN None ELSE Some(SubSeq(name, dot + 1, Len(name)))

\* Path::has_root
has_root(p) == p # <<>> /\ Head(p) = "/"

\* Path::components without the root: the non-empty parts between "/"
RECURSIVE Components(_)
Components(p) ==
    IF p = <<>> THEN <<>>
    ELSE LET cut == IF \E i \in 1..Len(p) : p[i] = "/"
                    THEN CHOOSE i \in 1..Len(p) : p[i] = "/" /\ \A j \in 1..(i - 1) : p[j] # "/"
                    ELSE Len(p) + 1
             first == SubSeq(p, 1, cut - 1)
             rest == Components(SubSeq(p, cut + 1, Len(p)))
         IN  IF first = <<>> THEN rest ELSE <<first>> \o rest

\* Path::starts_with: base's components are a prefix of p's components
PathStartsWith(p, base) ==
    /\ has_root(p) = has_root(base)
    /\ Len(Components(base)) <= Len(Components(p))
    /\ SubSeq(Components(p), 1, Len(Components(base))) = Components(base)

\* Path::join
Join(base, p) ==
    IF has_root(p) THEN p
    ELSE IF base = <<>> \/ base[Len(base)] = "/" THEN base \o p
    ELSE base \o <<"/">> \o p

(***************************************************************************)
(* get_doc: the body of the loop over the lines of one file                *)
(***************************************************************************)
\* the three flags as one value
Flags(block, section, section_block) ==
    [cmt_block |-> block, cmt_section |-> section, cmt_section_block |-> section_block]

\* mutant: an empty line ends the section comment also between two "--" lines
Classify_blank_ends_in_block(block, section, section_block, line) ==
    IF line = SLASHES THEN Flags(~block, section, section_block)
    ELSE IF line = COMMENT THEN Flags(block, TRUE, section_block)
    ELSE IF section /\ line = DASHES
    THEN IF ~section_block THEN Flags(block, section, TRUE)
         ELSE Flags(block, FALSE, FALSE)
    ELSE IF section /\ line = <<>> THEN Flags(block, FALSE, section_block)
    ELSE Flags(block, section, section_block)

\* mutant: the second "--" closes the block and leaves the section comment open
Classify_dashes_keep_section(block, section, section_block, line) ==
    IF line = SLASHES THEN Flags(~block, section, section_block)
    ELSE IF line = COMMENT THEN Flags(block, TRUE, section_block)
    ELSE IF section /\ line = DASHES
    THEN IF ~section_block THEN Flags(block, section, TRUE)
         ELSE Flags(block, section, FALSE)
    ELSE IF section /\ line = <<>> /\ ~section_block
    THEN Flags(block, FALSE, section_block)
    ELSE Flags(block, section, section_block)

\* mutant: "--" is looked at outside a section comment too
Classify_dashes_outside_section(block, section, section_block, line) ==
    IF line = SLASHES THEN Flags(~block, section, section_block)
    ELSE IF line = COMMENT THEN Flags(block, TRUE, section_block)
    ELSE IF line = DASHES
    THEN IF ~section_block THEN Flags(block, section, TRUE)
         ELSE Flags(block, FALSE, FALSE)
    ELSE IF section /\ line = <<>> /\ ~section_block
    THEN Flags(block, FALSE, section_block)
    ELSE Flags(block, section, section_block)

\* mutant: inside a "////" block only "////" is looked at
Classify_block_hides_markers(block, section, section_block, line) ==
    IF line = SLASHES THEN Flags(~block, section, section_block)
    ELSE IF block THEN Flags(block, section, section_block)
    ELSE IF line = COMMENT THEN Flags(block, TRUE, section_block)
    ELSE IF section /\ line = DASHES
    THEN IF ~section_block THEN Flags(block, section, TRUE)
         ELSE Flags(block, FALSE, FALSE)
    ELSE IF section /\ line = <<>> /\ ~section_block
    THEN Flags(block, FALSE, section_block)
    ELSE Flags(block, section, section_block)

\* The comment flags after the line (get_doc, the if / else-if chain on the
\* trimmed line; the same text in both variants).
Classify(block, section, section_block, line) ==
    IF line = SLASHES
    THEN [cmt_block |-> ~block, cmt_section |-> section,
          cmt_section_block |-> section_block]
    ELSE IF line = COMMENT
    THEN [cmt_block |-> block, cmt_section |-> TRUE,
          cmt_section_block |-> section_block]
    ELSE IF section
    THEN IF line = DASHES
         THEN IF ~section_block
              THEN [cmt_block |-> block, cmt_section |-> section,
                    cmt_section_block |-> TRUE]
              ELSE [cmt_block |-> block, cmt_section |-> FALSE,
                    cmt_section_block |-> FALSE]
         ELSE IF line = <<>>
         THEN IF ~section_block
              THEN [cmt_block |-> block, cmt_section |-> FALSE,
                    cmt_section_block |-> section_block]
              ELSE [cmt_block |-> block, cmt_section |-> section,
                    cmt_section_block |-> section_block]
         ELSE [cmt_block |-> block, cmt_section |-> section,
               cmt_section_block |-> section_block]
    ELSE [cmt_block |-> block, cmt_section |-> section,
          cmt_section_block |-> section_block]

\* mutant: the block flag is forgotten
IsComment_section_only(flags) == flags.cmt_section

\* mutant: a line is a comment only when both flags are set
IsComment_both(flags) == flags.cmt_block /\ flags.cmt_section

\* let comment = cmt_block || cmt_section;
IsComment(flags) == flags.cmt_block \/ flags.cmt_section

\* mutant: every byte order mark in front of the line is removed
RECURSIVE StripBom_repeated(_)
StripBom_repeated(line_original) ==
    IF StripPrefix(line_original, BOM).some
    THEN StripBom_repeated(StripPrefix(line_original, BOM).val)
    ELSE line_original

\* if let Some(nb) = line_original.strip_prefix(BOM) { line_original = nb; }
StripBom(line_original) ==
    IF StripPrefix(line_original, BOM).some
    THEN StripPrefix(line_original, BOM).val
    ELSE line_original

\* !p.has_root() && !p.starts_with("http://") && !p.starts_with("https://")
IsRelativeDir(dir) ==
    ~has_root(dir) /\ ~PathStartsWith(dir, HTTP) /\ ~PathStartsWith(dir, HTTPS)

\* the ":imagesdir: " line pushed after a relative images directory
RewrittenImagesdir(path, dir) ==
    IMAGESDIR \o ReplaceBackslash(Join(Parent(path), dir)) \o <<"\n">>

\* the doc get_doc starts from
NewDoc(v, path) ==
    IF v = "range"
    THEN [path |-> path, revdate |-> None, content |-> <<>>, has_imagesdir |-> FALSE]
    ELSE [path |-> path, revdate |-> None, imagesdir |-> None]

\* mutant: has_imagesdir is set only where the rewritten line is pushed
range_get_doc_line_relative_only(block, section, section_block, d, line_original) ==
    LET line == Trim(line_original)
        flags == Classify(block, section, section_block, line)
        comment == IsComment(flags)
        revdate == try_parse_date_with_prefix(line, REVDATE)
        imagesdir == IF comment THEN None ELSE StripPrefix(line, IMAGESDIR)
        pushed == d.content \o StripBom(line_original) \o <<"\n">>
    IN  IF ~comment /\ StartsWith(line, INCLUDE)
        THEN [result |-> "skip", flags |-> flags, doc |-> d]
        ELSE IF ~comment /\ ~d.revdate.some /\ ~revdate.ok
        THEN [result |-> "err", flags |-> flags, doc |-> d, token |-> revdate.token]
        ELSE [result |-> "next", flags |-> flags,
              doc |-> [path |-> d.path,
                       revdate |-> IF ~comment /\ ~d.revdate.some /\ revdate.opt.some
                                   THEN revdate.opt ELSE d.revdate,
                       content |-> IF imagesdir.some /\ IsRelativeDir(imagesdir.val)
                                   THEN pushed \o RewrittenImagesdir(d.path, imagesdir.val)
                                   ELSE pushed,
                       has_imagesdir |-> d.has_imagesdir
                                         \/ (imagesdir.some /\ IsRelativeDir(imagesdir.val))]]

\* range variant, one iteration of the loop of get_doc on line_original.
\* result: "next" (the loop goes on), "skip" (return Ok(None)), "err" (return Err)
range_get_doc_line(block, section, section_block, d, line_original) ==
    LET line == Trim(line_original)
        flags == Classify(block, section, section_block, line)
        comment == IsComment(flags)
        revdate == try_parse_date_with_prefix(line, REVDATE)
        imagesdir == IF comment THEN None ELSE StripPrefix(line, IMAGESDIR)
        pushed == d.content \o StripBom(line_original) \o <<"\n">>
    IN  IF ~comment /\ StartsWith(line, INCLUDE)
        THEN [result |-> "skip", flags |-> flags, doc |-> d]
        ELSE IF ~comment /\ ~d.revdate.some /\ ~revdate.ok
        THEN [result |-> "err", flags |-> flags, doc |-> d, token |-> revdate.token]
        ELSE [result |-> "next", flags |-> flags,
              doc |-> [path |-> d.path,
                       revdate |-> IF ~comment /\ ~d.revdate.some /\ revdate.opt.some
                                   THEN revdate.opt ELSE d.revdate,
                       content |-> IF imagesdir.some /\ IsRelativeDir(imagesdir.val)
                                   THEN pushed \o RewrittenImagesdir(d.path, imagesdir.val)
                                   ELSE pushed,
                       has_imagesdir |-> d.has_imagesdir \/ imagesdir.some]]

\* mutant: the date is parsed on every live line, revdate set or not
simple_get_doc_line_reparse(block, section, section_block, d, line_read) ==
    LET line == Trim(line_read)
        flags == Classify(block, section, section_block, line)
        comment == IsComment(flags)
        revdate == simple_try_parse_date(line, REVDATE)
        line_no_prefix == StripPrefix(line, IMAGESDIR)
    IN  IF ~comment /\ StartsWith(line, INCLUDE)
        THEN [result |-> "skip", flags |-> flags, doc |-> d]
        ELSE IF ~comment /\ ~revdate.ok
        THEN [result |-> "err", flags |-> flags, doc |-> d, token |-> revdate.token]
        ELSE [result |-> "next", flags |-> flags,
              doc |-> [path |-> d.path,
                       revdate |-> IF ~comment /\ revdate.opt.some
                                   THEN revdate.opt ELSE d.revdate,
                       imagesdir |-> IF ~comment /\ ~d.imagesdir.some /\ line_no_prefix.some
                                     THEN line_no_prefix ELSE d.imagesdir]]

\* simple variant, one iteration of the loop of get_doc on the line read
simple_get_doc_line(block, section, section_block, d, line_read) ==
    LET line == Trim(line_read)
        flags == Classify(block, section, section_block, line)
        comment == IsComment(flags)
        revdate == simple_try_parse_date(line, REVDATE)
        line_no_prefix == StripPrefix(line, IMAGESDIR)
    IN  IF ~comment /\ StartsWith(line, INCLUDE)
        THEN [result |-> "skip", flags |-> flags, doc |-> d]
        ELSE IF ~comment /\ ~d.revdate.some /\ ~revdate.ok
        THEN [result |-> "err", flags |-> flags, doc |-> d, token |-> revdate.token]
        ELSE [result |-> "next", flags |-> flags,
              doc |-> [path |-> d.path,
                       revdate |-> IF ~comment /\ ~d.revdate.some /\ revdate.opt.some
                                   THEN revdate.opt ELSE d.revdate,
                       imagesdir |-> IF ~comment /\ ~d.imagesdir.some /\ line_no_prefix.some
                                     THEN line_no_prefix ELSE d.imagesdir]]

\* mutant: the include check is made outside "if !comment"
get_doc_line_include_anywhere(v, block, section, section_block, d, line) ==
    LET r == IF v = "range"
             THEN range_get_doc_line(block, section, section_block, d, line)
             ELSE simple_get_doc_line(block, section, section_block, d, line)
    IN  IF StartsWith(Trim(line), INCLUDE)
        THEN [result |-> "skip", flags |-> r.flags, doc |-> d]
        ELSE r

\* mutant: a live include is reported as an error
get_doc_line_include_err(v, block, section, section_block, d, line) ==
    LET r == IF v = "range"
             THEN range_get_doc_line(block, section, section_block, d, line)
             ELSE simple_get_doc_line(block, section, section_block, d, line)
    IN  IF r.result = "skip"
        THEN [result |-> "err", flags |-> r.flags, doc |-> d, token |-> Trim(line)]
        ELSE r

\* get_doc, one iteration of the loop, in the variant that runs
get_doc_line(v, block, section, section_block, d, line) ==
    IF v = "range"
    THEN range_get_doc_line(block, section, section_block, d, line)
    ELSE simple_get_doc_line(block, section, section_block, d, line)

(***************************************************************************)
(* main: sort and filter; generate and write_contents                      *)
(***************************************************************************)
\* mutant: l and r are compared the other way round (oldest on the top)
revdate_cmp_ascending(a, b) ==
    LET l == a.revdate
        r == b.revdate
    IN  IF ~l.some /\ ~r.some THEN "Equal"
        ELSE IF ~l.some THEN "Greater"
        ELSE IF ~r.some THEN "Less"
        ELSE IF l.val.year # r.val.year
             THEN (IF l.val.year < r.val.year THEN "Less" ELSE "Greater")
        ELSE IF l.val.month # r.val.month
             THEN (IF l.val.month < r.val.month THEN "Less" ELSE "Greater")
        ELSE IF l.val.day # r.val.day
             THEN (IF l.val.day < r.val.day THEN "Less" ELSE "Greater")
        ELSE "Equal"

\* the closure given to docs.sort_by: cmp(a, b)
revdate_cmp(a, b) ==
    LET l == a.revdate
        r == b.revdate
    IN  IF ~l.some /\ ~r.some THEN "Equal"
        ELSE IF ~l.some THEN "Greater"
        ELSE IF ~r.some THEN "Less"
        ELSE IF r.val.year # l.val.year
             THEN (IF r.val.year < l.val.year THEN "Less" ELSE "Greater")
        ELSE IF r.val.month # l.val.month
             THEN (IF r.val.month < l.val.month THEN "Less" ELSE "Greater")
        ELSE IF r.val.day # l.val.day
             THEN (IF r.val.day < l.val.day THEN "Less" ELSE "Greater")
        ELSE "Equal"

\* x put into the sorted s behind every element that does not compare Greater
RECURSIVE InsertStable(_, _)
InsertStable(s, x) ==
    IF s = <<>> THEN <<x>>
    ELSE IF revdate_cmp(Head(s), x) = "Greater" THEN <<x>> \o s
    ELSE <<Head(s)>> \o InsertStable(Tail(s), x)

\* slice::sort_by, a stable sort, with the closure of main
RECURSIVE sort_by(_)
sort_by(s) ==
    IF s = <<>> THEN <<>>
    ELSE InsertStable(sort_by(SubSeq(s, 1, Len(s) - 1)), s[Len(s)])

\* range variant: the closure given to docs.iter().filter
range_filter(d, start, end) ==
    IF d.revdate.some
    THEN Date_ge(d.revdate.val, start) /\ Date_le(d.revdate.val, end)
    ELSE FALSE

\* the documents the iterator given to generate yields: docs.iter() in the simple
\* variant, docs.iter().filter(..) in the range variant
Yields(v, d, start, end) ==
    IF v = "range" THEN range_filter(d, start, end) ELSE TRUE

\* the bytes of a file whose lines all end with "\n"
RECURSIVE FileBytes(_)
FileBytes(lines) ==
    IF lines = <<>> THEN <<>> ELSE Head(lines) \o <<"\n">> \o FileBytes(Tail(lines))

\* tmp of write_contents: [0u8; 256]
CHUNK == 256

\* simple variant: what write_contents writes of a file holding bytes, when the
\* first reader.read returns first_read bytes and every later one fills tmp or
\* reaches the end of the file
RECURSIVE write_contents(_, _)
write_contents(bytes, first_read) ==
    LET read == first_read
        tmp == SubSeq(bytes, 1, read)
        written == IF read >= Len(BOM) /\ SubSeq(tmp, 1, Len(BOM)) = BOM
                   THEN SubSeq(tmp, Len(BOM) + 1, read)
                   ELSE tmp
        rest == SubSeq(bytes, read + 1, Len(bytes))
    IN  IF read < CHUNK THEN written
        ELSE written \o write_contents(rest, Min(CHUNK, Len(rest)))

\* what reader.read may return on its first call: a full tmp or all that is
\* left, or fewer bytes (Read::read may return less than asked before the end)
ShortReads == {1}

ReadSizes(bytes) ==
    {Min(CHUNK, Len(bytes))} \cup {n \in ShortReads : n < Min(CHUNK, Len(bytes))}

\* one buf.write of generate: which statement wrote, for which document, what
Write(seg, path, text) == [seg |-> seg, path |-> path, text |-> text]

\* generate: format!(":imagesdir: {}\n", parent_fwd)
FallbackImagesdir(path) ==
    IMAGESDIR \o ReplaceBackslash(Parent(path)) \o <<"\n">>

\* generate: if !doc.has_imagesdir (range), if let None = &doc.imagesdir (simple)
NeedsFallback(v, d) ==
    IF v = "range" THEN ~d.has_imagesdir ELSE ~d.imagesdir.some

\* mutant: the blank lines are written before the body instead of after it
DocWrites_separator_first(v, d, body) ==
    (IF ~(IF v = "range" THEN d.has_imagesdir ELSE d.imagesdir.some)
     THEN <<[seg |-> "imagesdir", path |-> d.path,
             text |-> IMAGESDIR \o ReplaceBackslash(Parent(d.path)) \o <<"\n">>]>>
     ELSE <<>>)
    \o <<[seg |-> "separator", path |-> d.path, text |-> SEPARATOR],
         [seg |-> "body", path |-> d.path, text |-> body]>>

\* generate: the writes of one iteration of the loop over the documents
DocWrites(v, d, body) ==
    (IF NeedsFallback(v, d)
     THEN <<Write("imagesdir", d.path, FallbackImagesdir(d.path))>>
     ELSE <<>>)
    \o <<Write("body", d.path, body), Write("separator", d.path, SEPARATOR)>>

(***************************************************************************)
(* Inputs                                                                  *)
(***************************************************************************)
MaxLines == 3

MaxFiles == 3

\* n written with exactly width decimal digits
RECURSIVE Decimal(_, _)
Decimal(n, width) ==
    IF width = 0 THEN <<>> ELSE Decimal(n \div 10, width - 1) \o <<Digits[(n % 10) + 1]>>

\* the token YYYY-MM-DD of a date
DateToken(y, m, d) == Decimal(y, 4) \o <<"-">> \o Decimal(m, 2) \o <<"-">> \o Decimal(d, 2)

RevdateLine(y, m, d) == REVDATE \o DateToken(y, m, d)

TextLine == <<"H", "e", "l", "l", "o">>

IncludeLine == INCLUDE \o <<"c", ".", "a", "d", "o", "c", "[", "]">>

BadRevdateLine == REVDATE \o <<"2", "0", "2", "4", "-", "1", "-", "5">>

RelativeImagesdirLine == IMAGESDIR \o <<"i", "m", "g">>

AbsoluteImagesdirLine == IMAGESDIR \o <<"/", "a", "b", "s">>

UrlImagesdirLine == IMAGESDIR \o HTTP \o <<"h", "/", "i">>

\* the lines a scanned file is made of
ScanLines ==
    {SLASHES, COMMENT, DASHES, <<>>, TextLine, IncludeLine,
     RevdateLine(2024, 1, 5), RevdateLine(2023, 12, 31), BadRevdateLine,
     RelativeImagesdirLine, AbsoluteImagesdirLine, UrlImagesdirLine}

SeqsUpTo(S, n) == UNION {[1..k -> S] : k \in 0..n}

\* the path of the i-th file: d/s/<i>.adoc for odd i, d/<i>.adoc for even i
PathOf(i, ext) ==
    (IF i % 2 = 1 THEN <<"d", "/", "s", "/">> ELSE <<"d", "/">>)
    \o <<Digits[i + 1], ".">> \o ext

\* the files of a run: a sequence of line sequences, each given its path; the
\* one file NotesFile is given the extension txt
TXT == <<"t", "x", "t">>

NotesFile == <<RevdateLine(2024, 1, 5), <<"n", "o", "t", "e", "s">>>>

FilesOf(contents) ==
    [i \in 1..Len(contents) |->
        [path |-> PathOf(i, IF contents[i] = NotesFile THEN TXT ELSE ADOC),
         lines |-> contents[i]]]

\* the documents of a whole run: three dated ones, one dated with an images
\* directory, an undated one, one whose directives are all in a comment, one
\* with an include, one with a malformed date, and a file that is not .adoc
RunFiles ==
    {<<RevdateLine(2024, 1, 5), TextLine>>,
     <<RevdateLine(2023, 12, 31), TextLine>>,
     <<RevdateLine(2024, 2, 1), TextLine>>,
     <<RelativeImagesdirLine, RevdateLine(2024, 1, 6)>>,
     <<TextLine>>,
     <<SLASHES, RevdateLine(2024, 1, 5), AbsoluteImagesdirLine, IncludeLine, SLASHES>>,
     <<IncludeLine>>,
     <<TextLine, BadRevdateLine>>,
     NotesFile}

NoArgs == [start |-> None, end |-> None]

InitMain ==
    /\ pc = "args"
    /\ exit_code = None
    /\ stderr = None
    /\ start_date = Date(0, 0, 0)
    /\ end_date = Date(U16_MAX, U8_MAX, U8_MAX)
    /\ idx = 0
    /\ ln = 0
    /\ cmt_block = FALSE
    /\ cmt_section = FALSE
    /\ cmt_section_block = FALSE
    /\ doc = None
    /\ docs = <<>>
    /\ gi = 0
    /\ out = <<>>

\* a whole run of either program without date arguments over up to MaxFiles files
Init ==
    /\ variant \in {"simple", "range"}
    /\ args = NoArgs
    /\ fs \in {FilesOf(c) : c \in SeqsUpTo(RunFiles, MaxFiles)}
    /\ InitMain

\* a run over one file of up to MaxLines lines
InitScan ==
    /\ variant \in {"simple", "range"}
    /\ args = NoArgs
    /\ fs \in {FilesOf(<<c>>) : c \in SeqsUpTo(ScanLines, MaxLines)}
    /\ InitMain

\* the documents of a run with a date range: one per date, and an undated one
RangeFiles ==
    {<<RevdateLine(2024, 1, 5)>>, <<RevdateLine(2024, 1, 6)>>,
     <<RevdateLine(2024, 2, 1)>>, <<TextLine>>}

\* the tokens given to --start-date and --end-date in such a run
RangeTokens ==
    {DateToken(2023, 12, 31), DateToken(2024, 1, 5), DateToken(2024, 1, 6)}

\* a run of the range variant with --start-date and --end-date given or not
InitRange ==
    /\ variant = "range"
    /\ args \in [start : {None} \cup {Some(t) : t \in RangeTokens},
                 end : {None} \cup {Some(t) : t \in RangeTokens}]
    /\ fs \in {FilesOf(c) : c \in SeqsUpTo(RangeFiles, MaxFiles)}
    /\ InitMain

\* well-formed tokens: every month and day of three years
WellFormedTokens ==
    {DateToken(y, m, d) : y \in {1, 2024, 9999}, m \in 1..12, d \in 1..31}

YearGroups ==
    {<<"2", "0", "2", "4">>, <<"0", "0", "0", "0">>, <<"+", "1", "2", "3">>,
     <<"-", "1", "2", "3">>, <<"2", "0", "x", "4">>, <<" ", "0", "2", "4">>}

MonthGroups ==
    {<<"0", "1">>, <<"1", "2">>, <<"0", "0">>, <<"1", "3">>, <<"+", "5">>,
     <<"-", "1">>, <<"1", "x">>}

DayGroups ==
    {<<"0", "5">>, <<"3", "1">>, <<"0", "0">>, <<"3", "2">>, <<"+", "9">>,
     <<"x", "1">>}

Separators == {<<"-">>, <<"/">>}

\* tokens of ten bytes put together from groups and separators
GroupTokens ==
    {y \o s1 \o m \o s2 \o d :
        y \in YearGroups, s1 \in Separators, m \in MonthGroups,
        s2 \in Separators, d \in DayGroups}

\* tokens of other lengths
OtherLengthTokens ==
    {<<>>, SubSeq(DateToken(2024, 1, 5), 1, 9), DateToken(2024, 1, 5) \o <<"0">>,
     <<"2", "0", "2", "4", "-", "1", "-", "5">>,
     <<"2", "4", "-", "0", "1", "-", "0", "5">>,
     BOM \o <<"2", "-", "0", "1", "-", "0", "5">>}

Tokens == WellFormedTokens \cup GroupTokens \cup OtherLengthTokens

\* a run over one file whose first line is ":revdate: " and a token; the range
\* variant is run without date arguments and with the token as --start-date
InitParse ==
    /\ variant \in {"simple", "range"}
    /\ \E t \in Tokens :
          /\ fs = FilesOf(<<<<REVDATE \o t, TextLine>>>>)
          /\ args \in IF variant = "range"
                      THEN {NoArgs, [start |-> Some(t), end |-> None]}
                      ELSE {NoArgs}
    /\ InitMain

\* the lines of a file whose body is looked at: text with and without a byte
\* order mark in front or inside, a "////" line, and ":imagesdir: " lines with
\* a relative directory, an absolute one, URLs, "http:" followed by one
\* slash, a backslash, blanks around the line, a byte order mark in front
MaxBodyLines == 3

BomTextLine == BOM \o TextLine

DoubleBomLine == BOM \o BOM \o TextLine

PaddedBomLine == <<" ">> \o BOM \o TextLine \o <<"\t">>

HttpsImagesdirLine == IMAGESDIR \o HTTPS \o <<"h">>

SingleSlashImagesdirLine == IMAGESDIR \o <<"h", "t", "t", "p", ":", "/", "i">>

BackslashImagesdirLine == IMAGESDIR \o <<"i", "\\", "a">>

PaddedImagesdirLine == <<" ">> \o RelativeImagesdirLine \o <<" ">>

BomImagesdirLine == BOM \o RelativeImagesdirLine

BodyLines ==
    {TextLine, BomTextLine, DoubleBomLine, PaddedBomLine, SLASHES,
     RelativeImagesdirLine, AbsoluteImagesdirLine, UrlImagesdirLine,
     HttpsImagesdirLine, SingleSlashImagesdirLine, BackslashImagesdirLine,
     PaddedImagesdirLine, BomImagesdirLine}

\* a run of the range variant over one dated file of up to MaxBodyLines more lines
InitBody ==
    /\ variant = "range"
    /\ args = NoArgs
    /\ fs \in {FilesOf(<<<<RevdateLine(2024, 1, 5)>> \o c>>) :
                  c \in SeqsUpTo(BodyLines, MaxBodyLines)}
    /\ InitMain

\* the lines of a file whose comment markers are looked at
MaxMarkerLines == 4

MarkerLines ==
    {SLASHES, COMMENT, DASHES, <<>>, RevdateLine(2024, 1, 5), BadRevdateLine,
     IncludeLine, RelativeImagesdirLine}

\* a run over one file of up to MaxMarkerLines marker and directive lines
InitMarkers ==
    /\ variant \in {"simple", "range"}
    /\ args = NoArgs
    /\ fs \in {FilesOf(<<c>>) : c \in SeqsUpTo(MarkerLines, MaxMarkerLines)}
    /\ InitMain

\* the lines of a file whose byte order marks are looked at: every marker and
\* directive with the mark in front, and some without
MaxBomLines == 3

BomLines ==
    {BOM \o SLASHES, BOM \o COMMENT, BOM \o IncludeLine,
     BOM \o RevdateLine(2024, 1, 5), BOM \o BadRevdateLine,
     BOM \o RelativeImagesdirLine, BOM,
     SLASHES, COMMENT, RevdateLine(2023, 12, 31)}

\* a run over one file of up to MaxBomLines such lines
InitBom ==
    /\ variant \in {"simple", "range"}
    /\ args = NoArgs
    /\ fs \in {FilesOf(<<c>>) : c \in SeqsUpTo(BomLines, MaxBomLines)}
    /\ InitMain

(***************************************************************************)
(* The steps of main                                                       *)
(***************************************************************************)
Fail(e) ==
    /\ pc' = "done"
    /\ exit_code' = Some(1)
    /\ stderr' = Some(e)

\* mutant: the index of the line is reported as it is
error_with_file_and_line_zero_based(path, line, err) ==
    [path |-> path, line |-> line, token |-> err]

\* error_with_file_and_line: "{path}:{line + 1}: {err}"
error_with_file_and_line(path, line, err) ==
    [path |-> path, line |-> line + 1, token |-> err]

\* main: the loop over the arguments, up to the call of traverse
ParseArgs ==
    /\ pc = "args"
    /\ LET s == IF args.start.some THEN try_parse_date(args.start.val)
                ELSE [ok |-> TRUE, date |-> start_date]
           e == IF args.end.some THEN try_parse_date(args.end.val)
                ELSE [ok |-> TRUE, date |-> end_date]
       IN  IF variant = "range" /\ ~s.ok
           THEN Fail([token |-> s.token]) /\ UNCHANGED <<start_date, end_date>>
           ELSE IF variant = "range" /\ ~e.ok
           THEN Fail([token |-> e.token]) /\ UNCHANGED <<start_date, end_date>>
           ELSE /\ pc' = "traverse"
                /\ start_date' = IF variant = "range" THEN s.date ELSE start_date
                /\ end_date' = IF variant = "range" THEN e.date ELSE end_date
                /\ UNCHANGED <<exit_code, stderr>>
    /\ UNCHANGED <<variant, args, fs, idx, ln, cmt_block, cmt_section,
                   cmt_section_block, doc, docs, gi, out>>

\* traverse reaches the next file: a file that is not .adoc is passed over,
\* for an .adoc file get_doc opens it and sets up its locals
OpenFile ==
    /\ pc = "traverse"
    /\ idx < Len(fs)
    /\ LET path == fs[idx + 1].path
       IN  IF Extension(path) # Some(ADOC)
           THEN /\ idx' = idx + 1
                /\ UNCHANGED <<pc, ln, cmt_block, cmt_section, cmt_section_block, doc>>
           ELSE /\ pc' = "scan"
                /\ ln' = 0
                /\ cmt_block' = FALSE
                /\ cmt_section' = FALSE
                /\ cmt_section_block' = FALSE
                /\ doc' = NewDoc(variant, path)
                /\ UNCHANGED idx
    /\ UNCHANGED <<variant, args, fs, exit_code, stderr, start_date, end_date,
                   docs, gi, out>>

\* get_doc: one iteration of the loop over the lines
ReadLine ==
    /\ pc = "scan"
    /\ ln < Len(fs[idx + 1].lines)
    /\ LET r == get_doc_line(variant, cmt_block, cmt_section, cmt_section_block,
                             doc, fs[idx + 1].lines[ln + 1])
       IN  /\ cmt_block' = r.flags.cmt_block
           /\ cmt_section' = r.flags.cmt_section
           /\ cmt_section_block' = r.flags.cmt_section_block
           /\ doc' = r.doc
           /\ IF r.result = "err"
              THEN \* error_with_file_and_line(path, ln, err); main prints it
                   /\ Fail(error_with_file_and_line(doc.path, ln, r.token))
                   /\ UNCHANGED <<idx, ln>>
              ELSE IF r.result = "skip"
              THEN \* Ok(None): traverse pushes nothing
                   /\ pc' = "traverse"
                   /\ idx' = idx + 1
                   /\ UNCHANGED <<ln, exit_code, stderr>>
              ELSE /\ ln' = ln + 1
                   /\ UNCHANGED <<pc, idx, exit_code, stderr>>
    /\ UNCHANGED <<variant, args, fs, start_date, end_date, docs, gi, out>>

\* get_doc: the lines are exhausted, Ok(Some(doc)); traverse pushes the doc
CloseFile ==
    /\ pc = "scan"
    /\ ln = Len(fs[idx + 1].lines)
    /\ docs' = Append(docs, doc)
    /\ idx' = idx + 1
    /\ pc' = "traverse"
    /\ UNCHANGED <<variant, args, fs, exit_code, stderr, start_date, end_date, ln,
                   cmt_block, cmt_section, cmt_section_block, doc, gi, out>>

\* main: traverse returned Ok, docs.sort_by(..)
SortDocs ==
    /\ pc = "traverse"
    /\ idx = Len(fs)
    /\ docs' = sort_by(docs)
    /\ pc' = "generate"
    /\ UNCHANGED <<variant, args, fs, exit_code, stderr, start_date, end_date, idx, ln,
                   cmt_block, cmt_section, cmt_section_block, doc, gi, out>>

\* generate: File::create, the header and the leveloffset directive
GenerateBegin ==
    /\ pc = "generate"
    /\ out' = <<Write("header", <<>>, HEADER),
                Write("leveloffset_open", <<>>, LEVELOFFSET_OPEN)>>
    /\ gi' = 0
    /\ pc' = "write"
    /\ UNCHANGED <<variant, args, fs, exit_code, stderr, start_date, end_date, idx, ln,
                   cmt_block, cmt_section, cmt_section_block, doc, docs>>

\* the elements of docs the iterator has not consumed and will yield
Pending == {j \in (gi + 1)..Len(docs) : Yields(variant, docs[j], start_date, end_date)}

\* the lines of the file at path
LinesAt(path) == fs[CHOOSE i \in 1..Len(fs) : fs[i].path = path].lines

\* generate: one iteration of the loop over the documents the iterator yields
GenerateDoc ==
    /\ pc = "write"
    /\ Pending # {}
    /\ LET j == CHOOSE k \in Pending : \A m \in Pending : k <= m
           d == docs[j]
       IN  /\ gi' = j
           /\ IF variant = "range"
              THEN out' = out \o DocWrites(variant, d, d.content)
              ELSE \E n \in ReadSizes(FileBytes(LinesAt(d.path))) :
                      out' = out \o DocWrites(variant, d,
                                 write_contents(FileBytes(LinesAt(d.path)), n))
    /\ UNCHANGED <<variant, args, fs, pc, exit_code, stderr, start_date, end_date, idx,
                   ln, cmt_block, cmt_section, cmt_section_block, doc, docs>>

\* generate: the iterator is exhausted; the closing directive and the footer;
\* main returns ExitCode::SUCCESS
GenerateEnd ==
    /\ pc = "write"
    /\ Pending = {}
    /\ out' = out \o <<Write("leveloffset_close", <<>>, LEVELOFFSET_CLOSE),
                       Write("footer", <<>>, FOOTER)>>
    /\ gi' = Len(docs)
    /\ pc' = "done"
    /\ exit_code' = Some(0)
    /\ UNCHANGED <<variant, args, fs, stderr, start_date, end_date, idx, ln,
                   cmt_block, cmt_section, cmt_section_block, doc, docs>>

Next ==
    \/ ParseArgs
    \/ OpenFile
    \/ ReadLine
    \/ CloseFile
    \/ SortDocs
    \/ GenerateBegin
    \/ GenerateDoc
    \/ GenerateEnd

Spec == Init /\ [][Next]_vars

SpecScan == InitScan /\ [][Next]_vars

SpecRange == InitRange /\ [][Next]_vars

SpecParse == InitParse /\ [][Next]_vars

SpecBody == InitBody /\ [][Next]_vars

SpecMarkers == InitMarkers /\ [][Next]_vars

SpecBom == InitBom /\ [][Next]_vars

(***************************************************************************)
(* Properties                                                              *)
(***************************************************************************)
\* get_doc is about to read a line: the lines of its file and the trimmed line
Scanning == pc = "scan" /\ ln < Len(fs[idx + 1].lines)

ScannedLines == fs[idx + 1].lines

NextLine == Trim(fs[idx + 1].lines[ln + 1])

\* the number of "////" lines among the first k lines
SlashesAmong(lines, k) == Cardinality({i \in 1..k : Trim(lines[i]) = SLASHES})

\* main returned 1
Aborted == pc = "done" /\ exit_code = Some(1)

\* main returned 0
Succeeded == pc = "done" /\ exit_code = Some(0)

\* the paths of a sequence of documents or of writes
PathsOf(s) == [i \in 1..Len(s) |-> s[i].path]

IsBody(w) == w.seg = "body"

\* the paths of the bodies written so far, in the order written
BodyPaths == PathsOf(SelectSeq(out, IsBody))

\* C1: a line ":revdate: 2024-01-05" read after an odd number of "////" lines
\* (strictly between an opening "////" and the next "////") leaves revdate as
\* it is; read while neither comment flag is set and revdate is None, it sets
\* revdate to Some({2024, 1, 5}).
C1_RevdateIgnoredInBlock ==
    [][(Scanning /\ NextLine = RevdateLine(2024, 1, 5)) =>
         /\ SlashesAmong(ScannedLines, ln) % 2 = 1 => doc'.revdate = doc.revdate
         /\ (~cmt_block /\ ~cmt_section /\ doc.revdate = None) =>
                doc'.revdate = Some(Date(2024, 1, 5))]_vars

\* C1 witness: the revdate line was read inside an open "////" block, and
\* revdate is still None
C1_Witness ==
    /\ pc = "scan"
    /\ ln >= 2
    /\ Trim(ScannedLines[ln]) = RevdateLine(2024, 1, 5)
    /\ SlashesAmong(ScannedLines, ln - 1) = 1
    /\ doc.revdate = None

\* C2: when get_doc reads a line starting with "include::" while neither
\* comment flag is set, it returns Ok(None) at that line: traverse goes on to
\* the next file, no line of the file is read after it, nothing is pushed to
\* docs; inside a comment the scan goes on to the next line.  No document and
\* no write of the output ever carries the path of a file that was left so.
C2_IncludeSkipsDocument ==
    [][/\ (Scanning /\ StartsWith(NextLine, INCLUDE)) =>
             IF ~cmt_block /\ ~cmt_section
             THEN /\ pc' = "traverse"
                  /\ idx' = idx + 1
                  /\ docs' = docs
                  /\ out' = out
                  /\ \A i \in 1..Len(docs) : docs[i].path # doc.path
             ELSE pc' = "scan" /\ ln' = ln + 1 /\ idx' = idx
       /\ \A i \in 1..Len(fs) :
             (fs[i].lines # <<>> /\ StartsWith(Trim(fs[i].lines[1]), INCLUDE)) =>
                 /\ \A j \in 1..Len(docs') : docs'[j].path # fs[i].path
                 /\ \A k \in 1..Len(out') : out'[k].path # fs[i].path]_vars

\* C2 witness: a run ended with exit code 0 in which a file with an include was
\* passed over and a file read after it was written to the output
C2_Witness ==
    /\ Succeeded
    /\ Len(fs) >= 2
    /\ fs[1].lines = <<IncludeLine>>
    /\ BodyPaths = <<fs[2].path>>

\* C3: reading a live "include::" line is no error: nothing is printed, main
\* does not return at that step, and whenever main has returned 1 the line the
\* error names does not start with "include::".
C3_IncludeIsNoError ==
    [][/\ (Scanning /\ StartsWith(NextLine, INCLUDE) /\ ~cmt_block /\ ~cmt_section) =>
             /\ pc' = "traverse"
             /\ exit_code' = None
             /\ stderr' = None
       /\ (Aborted' /\ stderr' # None /\ "line" \in DOMAIN stderr'.val) =>
             ~StartsWith(Trim(fs'[idx' + 1].lines[stderr'.val.line]), INCLUDE)
       /\ (Succeeded' /\ Len(fs') = 1 /\ \E i \in 1..Len(fs'[1].lines) :
               StartsWith(Trim(fs'[1].lines[i]), INCLUDE)
               /\ \A j \in 1..(i - 1) : Trim(fs'[1].lines[j]) \in {TextLine, <<>>, DASHES})
             => docs' = <<>>]_vars

\* C3 witness: a run over one file with a live include line after a text line
\* ended with exit code 0 and no document
C3_Witness ==
    /\ Succeeded
    /\ Len(fs) = 1
    /\ Len(fs[1].lines) >= 2
    /\ fs[1].lines[1] = TextLine
    /\ fs[1].lines[2] = IncludeLine
    /\ docs = <<>>

\* the token of a run of SpecParse: what follows ":revdate: " on the first line
RunToken == SubSeq(fs[1].lines[1], Len(REVDATE) + 1, Len(fs[1].lines[1]))

\* a token of ten bytes in the pattern DDDD-DD-DD
HasDateShape(t) ==
    /\ Len(t) = 10
    /\ \A i \in {1, 2, 3, 4, 6, 7, 9, 10} : IsDigit(t[i])
    /\ t[5] = "-"
    /\ t[8] = "-"

ShapeYear(t) ==
    1000 * DigitValue(t[1]) + 100 * DigitValue(t[2]) + 10 * DigitValue(t[3])
    + DigitValue(t[4])

ShapeMonth(t) == 10 * DigitValue(t[6]) + DigitValue(t[7])

ShapeDay(t) == 10 * DigitValue(t[9]) + DigitValue(t[10])

\* YYYY-MM-DD with YYYY >= 1, 1 <= MM <= 12, 1 <= DD <= 31
IsValidToken(t) ==
    /\ HasDateShape(t)
    /\ ShapeYear(t) >= 1
    /\ ShapeMonth(t) >= 1 /\ ShapeMonth(t) <= 12
    /\ ShapeDay(t) >= 1 /\ ShapeDay(t) <= 31

\* the first line of the one file of the run has been read without an error
FirstLineRead == (pc = "scan" /\ ln >= 1) \/ (pc # "scan" /\ idx = 1 /\ ~Aborted)

RevdateOfRun == IF pc = "scan" THEN doc.revdate ELSE docs[1].revdate

\* C4: every token YYYY-MM-DD of digits and two hyphens with YYYY >= 1,
\* 1 <= MM <= 12 and 1 <= DD <= 31 is parsed without an error to the date of
\* exactly these three numbers, as --start-date and on a ":revdate: " line;
\* day 31 is accepted in any month.
C4_ValidTokenParses ==
    IsValidToken(RunToken) =>
        LET date == Date(ShapeYear(RunToken), ShapeMonth(RunToken), ShapeDay(RunToken))
        IN  /\ ~Aborted
            /\ (args.start.some /\ pc # "args") => start_date = date
            /\ FirstLineRead => RevdateOfRun = Some(date)

\* C4 witness: 2024-02-31 was parsed as --start-date and as the revdate of the
\* document, and the run ended with exit code 0
C4_Witness ==
    /\ Succeeded
    /\ RunToken = DateToken(2024, 2, 31)
    /\ args.start = Some(RunToken)
    /\ start_date = Date(2024, 2, 31)
    /\ docs[1].revdate = Some(Date(2024, 2, 31))

\* C5: parse fails for every token that is not ten bytes in the pattern
\* DDDD-DD-DD, or whose year is 0, month is outside 1..12 or day is outside
\* 1..31: as --start-date the run ends with exit code 1 at the arguments, and
\* on a ":revdate: " line the scan does not get past that line.
C5_InvalidTokenRejected ==
    ~IsValidToken(RunToken) =>
        /\ (args.start.some /\ pc # "args") => Aborted
        /\ (~args.start.some /\ RunToken # <<>>) => ~FirstLineRead

\* a <= b in the lexicographic order of (year, month, day)
LexLe(a, b) ==
    \/ a.year < b.year
    \/ a.year = b.year /\ (a.month < b.month \/ (a.month = b.month /\ a.day <= b.day))

\* dated before undated, and the dated in non-increasing order
NewestFirst(s) ==
    \A i, j \in 1..Len(s) :
        i < j => /\ s[j].revdate.some => s[i].revdate.some
                 /\ s[j].revdate.some => LexLe(s[j].revdate.val, s[i].revdate.val)

PositionIn(s, path) == CHOOSE i \in 1..Len(s) : s[i].path = path

\* documents of equal revdate are in after in the order they have in before
KeepsTies(before, after) ==
    \A i, j \in 1..Len(after) :
        (i < j /\ after[i].revdate = after[j].revdate) =>
            PositionIn(before, after[i].path) < PositionIn(before, after[j].path)

\* C6: the sort step leaves the same documents in docs, every dated document
\* before every undated one, the dated ones in non-increasing (year, month,
\* day) order, and documents of equal revdate (or both undated) in the order
\* traversal pushed them.
C6_SortNewestFirstStable ==
    [][(pc = "traverse" /\ idx = Len(fs)) =>
         /\ pc' = "generate"
         /\ Len(docs') = Len(docs)
         /\ {docs'[i] : i \in 1..Len(docs')} = {docs[i] : i \in 1..Len(docs)}
         /\ NewestFirst(docs')
         /\ KeepsTies(docs, docs')]_vars

\* C6 witness: after the sort, two documents of one date come before an
\* undated document that traversal had pushed first
C6_Witness ==
    /\ pc = "generate"
    /\ Len(docs) = 3
    /\ docs[1].revdate.some
    /\ docs[1].revdate = docs[2].revdate
    /\ ~docs[3].revdate.some
    /\ docs[3].path = fs[1].path

\* start <= revdate <= end on (year, month, day)
InRange(d) ==
    /\ d.revdate.some
    /\ LexLe(start_date, d.revdate.val)
    /\ LexLe(d.revdate.val, end_date)

\* the dates of a state: the bounds and the revdates of the documents
StateDates ==
    {start_date, end_date}
    \cup {docs[i].revdate.val : i \in {k \in 1..Len(docs) : docs[k].revdate.some}}

\* C7: in the range variant the bodies written are those of exactly the
\* documents, among the ones the iterator has passed, that have a revdate with
\* start <= revdate <= end, both bounds included; Date::ge and Date::le agree
\* with the lexicographic order of (year, month, day) on all dates of the run;
\* with start > end nothing is written.
C7_InclusiveRangeFilter ==
    (variant = "range" /\ pc \in {"write", "done"} /\ ~Aborted) =>
        /\ BodyPaths = PathsOf(SelectSeq(SubSeq(docs, 1, gi), InRange))
        /\ \A a, b \in StateDates :
              /\ Date_ge(a, b) <=> LexLe(b, a)
              /\ Date_le(a, b) <=> LexLe(a, b)
        /\ ~LexLe(start_date, end_date) => BodyPaths = <<>>

\* C7 witness: a run with both bounds given ended with a document dated
\* exactly start written, a document dated exactly end written, and a dated
\* document left out
C7_Witness ==
    /\ Succeeded
    /\ args.start.some
    /\ args.end.some
    /\ start_date # end_date
    /\ \E i, j, k \in 1..Len(docs) :
          /\ docs[i].revdate = Some(start_date)
          /\ docs[j].revdate = Some(end_date)
          /\ docs[k].revdate.some
          /\ \E n \in 1..Len(BodyPaths) : BodyPaths[n] = docs[i].path
          /\ \E n \in 1..Len(BodyPaths) : BodyPaths[n] = docs[j].path
          /\ \A n \in 1..Len(BodyPaths) : BodyPaths[n] # docs[k].path

\* C8: without --start-date and --end-date nothing is filtered: a run that
\* ends with exit code 0 has written the body of every document of docs, the
\* undated ones included.
C8_NoFilterWithoutBounds ==
    (Succeeded /\ args = NoArgs) => BodyPaths = PathsOf(docs)

\* the number of writes of a kind
CountOf(seg) == Cardinality({k \in 1..Len(out) : out[k].seg = seg})

\* the document of a path
DocAt(path) == docs[PositionIn(docs, path)]

\* what the iterator given to generate lets through
Selected(d) == Yields(variant, d, start_date, end_date)

\* C9: the output is the header, then the ":leveloffset: +1" directive once,
\* then the body of each selected document once, in the order of the sorted
\* docs (newest revdate first), each body followed by the blank-line
\* separator, then the ":leveloffset: -1" directive once, then the footer; no
\* body is written before the +1 directive or after the -1 directive.
C9_OutputLayout ==
    (pc \in {"write", "done"} /\ ~Aborted) =>
        /\ out[1] = [seg |-> "header", path |-> <<>>, text |-> HEADER]
        /\ out[2] = [seg |-> "leveloffset_open", path |-> <<>>, text |-> LEVELOFFSET_OPEN]
        /\ CountOf("header") = 1
        /\ CountOf("leveloffset_open") = 1
        /\ \A k \in 1..Len(out) :
              out[k].seg = "body" =>
                  /\ k > 2
                  /\ k < Len(out)
                  /\ out[k + 1] = [seg |-> "separator", path |-> out[k].path,
                                   text |-> SEPARATOR]
                  /\ \A c \in 1..k : out[c].seg # "leveloffset_close"
                  /\ variant = "range" => out[k].text = DocAt(out[k].path).content
        /\ CountOf("separator") = CountOf("body")
        /\ BodyPaths = PathsOf(SelectSeq(SubSeq(docs, 1, gi), Selected))
        /\ NewestFirst(docs)
        /\ IF pc = "done"
           THEN /\ CountOf("leveloffset_close") = 1
                /\ CountOf("footer") = 1
                /\ gi = Len(docs)
                /\ out[Len(out) - 1] = [seg |-> "leveloffset_close", path |-> <<>>,
                                        text |-> LEVELOFFSET_CLOSE]
                /\ out[Len(out)] = [seg |-> "footer", path |-> <<>>, text |-> FOOTER]
           ELSE CountOf("leveloffset_close") = 0 /\ CountOf("footer") = 0

\* C9 witness: a run ended with exit code 0 whose output holds the body of the
\* second file before the body of the first and a third body after them
C9_Witness ==
    /\ Succeeded
    /\ Len(BodyPaths) = 3
    /\ BodyPaths[1] = fs[2].path
    /\ BodyPaths[2] = fs[1].path
    /\ DocAt(fs[1].path).revdate.some

\* has_imagesdir in the range variant, imagesdir.is_some() in the simple one
FoundImagesdir(d) == IF variant = "range" THEN d.has_imagesdir ELSE d.imagesdir.some

\* the fallback line of a path <dir>/<n>.adoc, its file name being 6 bytes
FallbackLineOf(path) == IMAGESDIR \o SubSeq(path, 1, Len(path) - 7) \o <<"\n">>

\* the write before the k-th is the fallback line of the same document
FallbackBefore(k) ==
    /\ out[k - 1].seg = "imagesdir"
    /\ out[k - 1].path = out[k].path
    /\ out[k - 1].text = FallbackLineOf(out[k].path)

\* an ":imagesdir: " line among the first k lines after an even number of "////"
ImagesdirOutsideBlocks(lines, k) ==
    \E i \in 1..k :
        StartsWith(Trim(lines[i]), IMAGESDIR) /\ SlashesAmong(lines, i - 1) % 2 = 0

\* the fallback line is written before the body of exactly the documents in
\* which no directive was found, and nowhere else
FallbackWritten ==
    \A k \in 1..Len(out) :
        /\ out[k].seg = "body" =>
              (FallbackBefore(k) <=> ~FoundImagesdir(DocAt(out[k].path)))
        /\ out[k].seg = "imagesdir" => (k < Len(out) /\ out[k + 1].seg = "body"
                                        /\ FallbackBefore(k + 1))

\* in a file without "[comment]" lines so far, the directive is found iff an
\* ":imagesdir: " line read so far lies outside the "////" blocks
FoundOutsideBlocks ==
    (pc = "scan" /\ \A i \in 1..ln : Trim(ScannedLines[i]) # COMMENT) =>
        (FoundImagesdir(doc) <=> ImagesdirOutsideBlocks(ScannedLines, ln))

\* C10: the fallback ":imagesdir: <parent of the path>" is written, right
\* before the body, for exactly the documents in which no ":imagesdir: " line
\* was live: a line read makes the directive found iff it starts with
\* ":imagesdir: " and neither comment flag is set after it (relative, absolute
\* or URL alike); in a file without "[comment]" lines the directive is found
\* iff such a line lies outside the "////" blocks.
C10_FallbackImagesdir ==
    [][/\ (pc = "traverse" /\ pc' = "scan") => ~FoundImagesdir(doc')
       /\ (Scanning /\ pc' = "scan") =>
             (FoundImagesdir(doc') <=>
                 \/ FoundImagesdir(doc)
                 \/ (StartsWith(NextLine, IMAGESDIR) /\ ~cmt_block' /\ ~cmt_section'))
       /\ FallbackWritten'
       /\ FoundOutsideBlocks']_vars

\* C10 witness: a run ended with exit code 0 over a file whose only
\* ":imagesdir: " line is inside a "////" block, and the fallback was written
C10_Witness ==
    /\ Succeeded
    /\ Len(fs) = 1
    /\ fs[1].lines = <<SLASHES, RelativeImagesdirLine, SLASHES>>
    /\ Len(out) >= 4
    /\ out[4].seg = "body"
    /\ FallbackBefore(4)

\* the line the next step reads, as read
NextOriginal == fs[idx + 1].lines[ln + 1]

\* what a line adds to the body: the line, without the byte order mark when
\* the mark is its first three bytes, and a newline
LineCopy(l) ==
    (IF Len(l) >= 3 /\ <<l[1], l[2], l[3]>> = BOM THEN SubSeq(l, 4, Len(l)) ELSE l)
    \o <<"\n">>

\* every backslash as a forward slash
ForwardSlashed(t) == [i \in 1..Len(t) |-> IF t[i] = "\\" THEN "/" ELSE t[i]]

\* the X of a trimmed line ":imagesdir: X"
DirOf(line) == SubSeq(line, Len(IMAGESDIR) + 1, Len(line))

\* X is not absolute and does not start with "http://" or "https://"
IsPlainRelative(X) ==
    /\ ~(X # <<>> /\ X[1] = "/")
    /\ ~StartsWith(X, HTTP)
    /\ ~StartsWith(X, HTTPS)

\* the rewrite line of X in the document at <dir>/<n>.adoc
RewriteLineOf(path, X) ==
    IMAGESDIR \o ForwardSlashed(SubSeq(path, 1, Len(path) - 7) \o <<"/">> \o X)
    \o <<"\n">>

\* C11: a step that reads a live line ":imagesdir: X" appends to the body,
\* right after the line itself, the line ":imagesdir: " + the parent of the
\* document path joined with X, forward-slashed, when X is not absolute and
\* does not start with "http://" or "https://"; every other step appends the
\* line alone.
C11_RewriteExactlyRelative ==
    [][(Scanning /\ pc' = "scan") =>
          doc'.content =
             doc.content \o LineCopy(NextOriginal)
             \o (IF /\ ~cmt_block' /\ ~cmt_section'
                    /\ StartsWith(NextLine, IMAGESDIR)
                    /\ IsPlainRelative(DirOf(NextLine))
                 THEN RewriteLineOf(doc.path, DirOf(NextLine))
                 ELSE <<>>)]_vars

\* the token of a trimmed line ":revdate: <token>"
TokenOf(line) == SubSeq(line, Len(REVDATE) + 1, Len(line))

\* the date a valid token stands for
DateOfToken(t) == Date(ShapeYear(t), ShapeMonth(t), ShapeDay(t))

\* the ":revdate: " lines among the first k lines after an even number of "////"
RevdateLinesOutsideBlocks(lines, k) ==
    {i \in 1..k : StartsWith(Trim(lines[i]), REVDATE)
                  /\ SlashesAmong(lines, i - 1) % 2 = 0}

\* in a file without "[comment]" lines so far, revdate is the date of the
\* first ":revdate: " line outside the "////" blocks, whatever follows it
FirstRevdateWins ==
    (pc = "scan" /\ \A i \in 1..ln : Trim(ScannedLines[i]) # COMMENT) =>
        LET found == RevdateLinesOutsideBlocks(ScannedLines, ln)
        IN  IF found = {}
            THEN doc.revdate = None
            ELSE LET first == CHOOSE i \in found : \A j \in found : i <= j
                 IN  doc.revdate = Some(DateOfToken(TokenOf(Trim(ScannedLines[first]))))

\* C12: revdate is set at most once per document: a step that reads a line
\* while revdate is set leaves revdate as it is and raises no error, whatever
\* the line (a second valid ":revdate: " line or a malformed one); a step that
\* reads a live ":revdate: <valid date>" line while revdate is unset sets it.
C12_RevdateSetOnce ==
    /\ [][Scanning =>
             /\ doc.revdate.some => (doc'.revdate = doc.revdate /\ ~Aborted')
             /\ (/\ ~doc.revdate.some
                 /\ ~cmt_block' /\ ~cmt_section'
                 /\ StartsWith(NextLine, REVDATE)
                 /\ HasDateShape(TokenOf(NextLine))
                 /\ IsValidToken(TokenOf(NextLine)))
                => doc'.revdate = Some(DateOfToken(TokenOf(NextLine)))]_vars
    /\ []FirstRevdateWins

\* C12 witness: a run ended with exit code 0 over a file whose first line is a
\* valid ":revdate: " line followed by a malformed and another valid one, the
\* document carrying the first date
C12_Witness ==
    /\ Succeeded
    /\ Len(fs) = 1
    /\ fs[1].lines = <<RevdateLine(2024, 1, 5), BadRevdateLine, RevdateLine(2023, 12, 31)>>
    /\ Len(docs) = 1
    /\ docs[1].revdate = Some(Date(2024, 1, 5))

\* C13: a step that reads, while revdate is unset, a live line ":revdate: "
\* followed by what is no valid date token ends the run with exit code 1 and
\* an error that names the path of the file and the 1-based number of the
\* line; docs is left as traverse had it and nothing is written, then and in
\* every run that ended with exit code 1.
C13_BadDateAborts ==
    /\ [][(/\ Scanning
           /\ ~doc.revdate.some
           /\ ~cmt_block' /\ ~cmt_section'
           /\ StartsWith(NextLine, REVDATE)
           /\ ~IsValidToken(TokenOf(NextLine)))
          => /\ Aborted'
             /\ stderr' = Some([path |-> fs[idx + 1].path,
                                line |-> ln + 1,
                                token |-> TokenOf(NextLine)])
             /\ docs' = docs
             /\ out' = <<>>]_vars
    /\ [](Aborted => (out = <<>> /\ gi = 0))

\* C13 witness: a run ended with exit code 1 on line 2 of its second file,
\* after a document was extracted from the first, with nothing written
C13_Witness ==
    /\ Aborted
    /\ Len(docs) = 1
    /\ stderr = Some([path |-> fs[2].path, line |-> 2,
                      token |-> <<"2", "0", "2", "4", "-", "1", "-", "5">>])
    /\ fs[2].lines = <<TextLine, BadRevdateLine>>
    /\ out = <<>>

\* the copies of the first k lines, one after the other
RECURSIVE CopyOf(_, _)
CopyOf(lines, k) ==
    IF k = 0 THEN <<>> ELSE CopyOf(lines, k - 1) \o LineCopy(lines[k])

\* no ":imagesdir: " line among the first k lines
NoImagesdirAmong(lines, k) == \A i \in 1..k : ~StartsWith(Trim(lines[i]), IMAGESDIR)

\* t is one line that starts with ":imagesdir: " and ends with its only newline
IsImagesdirLine(t) ==
    /\ StartsWith(t, IMAGESDIR)
    /\ t[Len(t)] = "\n"
    /\ \A i \in 1..(Len(t) - 1) : t[i] # "\n"

\* while a file without ":imagesdir: " lines is read the body is the copy of
\* the lines read, and the body written for it is the copy of all its lines
BodyIsCopy ==
    /\ (pc = "scan" /\ NoImagesdirAmong(ScannedLines, ln))
          => doc.content = CopyOf(ScannedLines, ln)
    /\ \A k \in 1..Len(out) :
          (out[k].seg = "body"
           /\ NoImagesdirAmong(LinesAt(out[k].path), Len(LinesAt(out[k].path))))
          => out[k].text = CopyOf(LinesAt(out[k].path), Len(LinesAt(out[k].path)))

\* C14: the body of a document is its lines in their order, each one appended
\* (live or inside a comment) with a newline after it and without the byte
\* order mark when the mark is the line's first three bytes, on whichever
\* line; a step adds to the body the copy of the line read and nothing else
\* but, after an ":imagesdir: " line, at most one ":imagesdir: " line.
C14_BodyIsAllLines ==
    /\ [][(Scanning /\ pc' = "scan") =>
             LET copied == doc.content \o LineCopy(NextOriginal)
                 extra == SubSeq(doc'.content, Len(copied) + 1, Len(doc'.content))
             IN  /\ StartsWith(doc'.content, copied)
                 /\ extra # <<>> =>
                       (StartsWith(NextLine, IMAGESDIR) /\ IsImagesdirLine(extra))]_vars
    /\ []BodyIsCopy

\* C14 witness: a run ended with exit code 0 over a file with a "////" line, a
\* line with two byte order marks in front and a line with a mark after a
\* blank; the body has all four lines, one mark gone from the third
C14_Witness ==
    /\ Succeeded
    /\ fs[1].lines = <<RevdateLine(2024, 1, 5), SLASHES, DoubleBomLine, PaddedBomLine>>
    /\ Len(out) >= 4
    /\ out[4].seg = "body"
    /\ out[4].text = RevdateLine(2024, 1, 5) \o <<"\n">> \o SLASHES \o <<"\n">>
                     \o BOM \o TextLine \o <<"\n">>
                     \o <<" ">> \o BOM \o TextLine \o <<"\t", "\n">>

\* C15: a "[comment]" line sets the section flag; while it is set it is
\* cleared by an empty line read while the block flag of the section is clear
\* and by a "--" line read while that flag is set, and by nothing else; a
\* "--" line read in a section comment flips the block flag of the section
\* (the first opens it, the second closes it together with the section
\* comment), an empty line between the two changes nothing; outside a section
\* comment a "--" line or an empty line changes no flag.
C15_SectionCommentLifecycle ==
    [][Scanning =>
          /\ NextLine = COMMENT => cmt_section'
          /\ (cmt_section /\ NextLine # COMMENT) =>
                (cmt_section' <=>
                    ~(\/ (NextLine = <<>> /\ ~cmt_section_block)
                      \/ (NextLine = DASHES /\ cmt_section_block)))
          /\ cmt_section_block' =
                (IF cmt_section /\ NextLine = DASHES
                 THEN ~cmt_section_block ELSE cmt_section_block)
          /\ (cmt_section /\ cmt_section_block /\ NextLine = <<>>) =>
                (cmt_section' /\ cmt_section_block')
          /\ (~cmt_section /\ NextLine \in {DASHES, <<>>}) =>
                UNCHANGED <<cmt_block, cmt_section, cmt_section_block>>]_vars

\* C15 witness: "[comment]", "--", an empty line and "--" have been read and
\* both flags of the section comment are clear again
C15_Witness ==
    /\ pc = "scan"
    /\ ln = 4
    /\ ScannedLines = <<COMMENT, DASHES, <<>>, DASHES>>
    /\ ~cmt_section
    /\ ~cmt_section_block

\* the next line opens a comment region
OpensRegion ==
    \/ (NextLine = SLASHES /\ ~cmt_block)
    \/ NextLine = COMMENT
    \/ (NextLine = DASHES /\ cmt_section /\ ~cmt_section_block)

\* the next line closes a "////" block
ClosesBlock == NextLine = SLASHES /\ cmt_block

\* the next line ends a section comment: the second "--", or an empty line
\* outside a "--" pair
ClosesSection ==
    \/ (NextLine = DASHES /\ cmt_section /\ cmt_section_block)
    \/ (NextLine = <<>> /\ cmt_section /\ ~cmt_section_block)

\* C16 as stated: every line that opens or closes a comment region ("////",
\* "[comment]", "--" in a section comment, the empty line that ends a section
\* comment) is classified as not live, that is, a comment flag is set after it.
C16_MarkerLinesNotLive ==
    [][(Scanning /\ (OpensRegion \/ ClosesBlock \/ ClosesSection)) =>
          (cmt_block' \/ cmt_section')]_vars

\* C16 amended: a line that opens a comment region is classified as not live;
\* a line that closes one is classified as not live exactly when the other
\* kind of comment is open, and as live otherwise; in either case the line
\* sets no revdate, finds no images directory, skips nothing, raises no error
\* and adds nothing but itself to the body.
C16_MarkerLinesCarryNothing ==
    [][(Scanning /\ (OpensRegion \/ ClosesBlock \/ ClosesSection)) =>
          /\ OpensRegion => (cmt_block' \/ cmt_section')
          /\ ClosesBlock => ((cmt_block' \/ cmt_section') <=> cmt_section)
          /\ ClosesSection => ((cmt_block' \/ cmt_section') <=> cmt_block)
          /\ pc' = "scan"
          /\ ln' = ln + 1
          /\ doc'.revdate = doc.revdate
          /\ FoundImagesdir(doc') = FoundImagesdir(doc)
          /\ variant = "range" =>
                doc'.content = doc.content \o LineCopy(NextOriginal)]_vars

\* C16 witness: the closing "////" of a block has been read, no comment flag
\* is set after it, and the document has taken nothing from it
C16_Witness ==
    /\ pc = "scan"
    /\ ln = 2
    /\ ScannedLines = <<SLASHES, SLASHES>>
    /\ ~cmt_block
    /\ ~cmt_section
    /\ doc.revdate = None
    /\ ~FoundImagesdir(doc)

\* C17: a line is looked at for include::, :revdate: and :imagesdir: exactly
\* when the "////" flag and the section flag are both clear after the line's
\* own transitions: only then the step skips the file, raises a date error,
\* sets revdate or finds an images directory, and then it does; the "////"
\* flag changes on "////" lines and on no other, whatever the section flag,
\* so a block opened inside a section comment suppresses lines after the
\* section comment has ended, and a section comment opened inside a block
\* suppresses lines after the block has ended.
C17_LivenessIsNeitherFlag ==
    [][Scanning =>
          LET live == ~cmt_block' /\ ~cmt_section'
          IN  /\ pc' = "traverse" <=> (live /\ StartsWith(NextLine, INCLUDE))
              /\ Aborted' <=>
                    (/\ live
                     /\ ~doc.revdate.some
                     /\ StartsWith(NextLine, REVDATE)
                     /\ ~IsValidToken(TokenOf(NextLine)))
              /\ doc'.revdate # doc.revdate <=>
                    (/\ live
                     /\ ~doc.revdate.some
                     /\ StartsWith(NextLine, REVDATE)
                     /\ IsValidToken(TokenOf(NextLine)))
              /\ (FoundImagesdir(doc') /\ ~FoundImagesdir(doc)) <=>
                    (live /\ ~FoundImagesdir(doc) /\ StartsWith(NextLine, IMAGESDIR))
              /\ cmt_block' = (cmt_block # (NextLine = SLASHES))
              /\ (cmt_block /\ NextLine # SLASHES) => ~live
              /\ (cmt_section /\ cmt_section') => ~live]_vars

\* C17 witness: "[comment]", "////", an empty line and a ":revdate: " line
\* have been read; the section comment has ended, the block is open, and the
\* document has no revdate
C17_Witness ==
    /\ pc = "scan"
    /\ ln = 4
    /\ ScannedLines = <<COMMENT, SLASHES, <<>>, RevdateLine(2024, 1, 5)>>
    /\ cmt_block
    /\ ~cmt_section
    /\ doc.revdate = None

\* C19: in every state the block flag of the section comment is set only
\* while the section flag is set.
C19_SectionBlockImpliesSection == cmt_section_block => cmt_section

\* C19 witness: "[comment]", "--" and "////" have been read and all three
\* flags are set
C19_Witness ==
    /\ pc = "scan"
    /\ ln = 3
    /\ ScannedLines[1] = COMMENT
    /\ ScannedLines[2] = DASHES
    /\ ScannedLines[3] = SLASHES
    /\ cmt_block
    /\ cmt_section
    /\ cmt_section_block

\* a "[comment]" line among the first k lines with no empty line and no "--"
\* line after it
CommentLineOpenAt(lines, k) ==
    \E j \in 1..k :
        /\ Trim(lines[j]) = COMMENT
        /\ \A m \in (j + 1)..k : Trim(lines[m]) \notin {<<>>, DASHES}

\* C20: "[comment]" and "--" lines are interpreted inside an open "////"
\* block as they are outside: a "[comment]" line sets the section flag, a "--"
\* line in a section comment flips its block flag and the second one ends the
\* section comment; so whenever a "[comment]" line has been read and no empty
\* or "--" line after it, inside a "////" block or not, the section comment
\* is open and a step that reads a ":revdate: " line then changes no revdate
\* and raises no error.
C20_MarkersSeenInsideOtherComment ==
    /\ [][(Scanning /\ cmt_block /\ NextLine # SLASHES) =>
             /\ cmt_block'
             /\ NextLine = COMMENT => cmt_section'
             /\ (cmt_section /\ NextLine = DASHES) =>
                   /\ cmt_section_block' = ~cmt_section_block
                   /\ cmt_section' = ~cmt_section_block
             /\ (cmt_section /\ ~cmt_section_block /\ NextLine = <<>>) => ~cmt_section']_vars
    /\ [][(/\ Scanning
           /\ CommentLineOpenAt(ScannedLines, ln)
           /\ StartsWith(NextLine, REVDATE))
          => (pc' = "scan" /\ doc'.revdate = doc.revdate)]_vars
    /\ []((pc = "scan" /\ CommentLineOpenAt(ScannedLines, ln)) => cmt_section)

\* C20 witness: "////", "[comment]", "////" and a ":revdate: " line have been
\* read; the block is closed, the section comment is open and the document
\* has no revdate
C20_Witness ==
    /\ pc = "scan"
    /\ ln = 4
    /\ ScannedLines = <<SLASHES, COMMENT, SLASHES, RevdateLine(2024, 1, 5)>>
    /\ ~cmt_block
    /\ cmt_section
    /\ doc.revdate = None

\* the bytes with the byte order mark taken off the front of every run of
\* 256 bytes that starts with one
RECURSIVE ChunkCopy(_)
ChunkCopy(bytes) ==
    IF bytes = <<>> THEN <<>>
    ELSE LET n == IF Len(bytes) < CHUNK THEN Len(bytes) ELSE CHUNK
             chunk == SubSeq(bytes, 1, n)
         IN  (IF n >= 3 /\ SubSeq(chunk, 1, 3) = BOM THEN SubSeq(chunk, 4, n) ELSE chunk)
             \o ChunkCopy(SubSeq(bytes, n + 1, Len(bytes)))

\* C18: in the simple variant the body written for a document is the whole
\* file, all bytes in order, less the byte order marks at the front of a
\* 256-byte chunk, whatever the reads return: the copy never ends before the
\* end of the file.
C18_WriteContentsCopiesAll ==
    \A k \in 1..Len(out) :
        (variant = "simple" /\ out[k].seg = "body")
        => out[k].text = ChunkCopy(FileBytes(LinesAt(out[k].path)))

\* C21: a line with the byte order mark in front is recognised as no marker
\* and no directive, whatever follows the mark ("////", "[comment]",
\* "include::", ":revdate: " with a valid or a malformed date, ":imagesdir: ",
\* nothing): the step that reads it changes no comment flag, does not skip
\* the file, raises no error, leaves revdate and the images directory mark as
\* they are, and the body receives the line without the mark and nothing else.
C21_BomLineNotRecognised ==
    [][(Scanning /\ Len(NextOriginal) >= 3 /\ SubSeq(NextOriginal, 1, 3) = BOM) =>
          /\ UNCHANGED <<cmt_block, cmt_section, cmt_section_block>>
          /\ pc' = "scan"
          /\ ln' = ln + 1
          /\ exit_code' = None
          /\ doc'.revdate = doc.revdate
          /\ FoundImagesdir(doc') = FoundImagesdir(doc)
          /\ variant = "range" =>
                doc'.content = doc.content
                               \o SubSeq(NextOriginal, 4, Len(NextOriginal)) \o <<"\n">>]_vars

\* C21 witness: the range variant has read "////", ":revdate: 2024-01-05" and
\* ":imagesdir: img", each with the mark in front: no flag is set, there is no
\* revdate and no images directory, and the body holds the three lines
\* without the marks
C21_Witness ==
    /\ variant = "range"
    /\ pc = "scan"
    /\ ln = 3
    /\ ScannedLines = <<BOM \o SLASHES, BOM \o RevdateLine(2024, 1, 5),
                        BOM \o RelativeImagesdirLine>>
    /\ ~cmt_block
    /\ doc.revdate = None
    /\ ~doc.has_imagesdir
    /\ doc.content = SLASHES \o <<"\n">> \o RevdateLine(2024, 1, 5) \o <<"\n">>
                     \o RelativeImagesdirLine \o <<"\n">>

=============================================================================
